---- MODULE Spec2Model ----
(***************************************************************************)
(* The PTY execution engine of sudo-rs: exec_pty (the parent), exec_monitor *)
(* (the monitor) and exec_command (the command child), as three processes  *)
(* that talk over the backchannel, the error pipe, the PTY follower's      *)
(* foreground process group and signals.                                   *)
(*                                                                         *)
(* Options are sequences of length at most one: <<>> is None, <<v>> is     *)
(* Some(v).                                                                *)
(***************************************************************************)
EXTENDS Integers, Sequences, FiniteSets, TLC

\* ------------------------------------------------------------------ bounds

\* Signals the environment delivers to the parent or the monitor in one run.
MaxEnvSignals == 1
\* Times the command is stopped in one run.
MaxStops == 1

\* ------------------------------------------------------------ process ids

SudoPid == 1
MonitorPid == SudoPid + 1
CmdPid == MonitorPid + 1
\* A process started by the command (a job of a shell).
HelperPid == CmdPid + 1
\* A process unrelated to sudo and to the command, in its own group.
OtherPid == HelperPid + 1

\* ---------------------------------------------------------------- signals

SIGINT == 2
SIGALRM == 14
SIGTERM == 15
SIGCHLD == 17
SIGCONT == 18
SIGTSTP == 20
SIGWINCH == 28
SIGCONT_FG == -2
SIGCONT_BG == -3

\* Exit codes a command returns, errno values of a failed exec / startup.
ExitCodes == {42}
ExecErrnos == {2}
StartupErrnos == {1}
ForkErrnos == {11}
\* Signals that kill the command by themselves (kill -TERM $$).
SelfKillSignals == {SIGTERM}

\* ----------------------------------------------------------------- values

Msg(tag, val) == [tag |-> tag, val |-> val]
ExecCommand == Msg("ExecCommand", 0)

OsError(code) == [kind |-> "Os", code |-> code]
UnexpectedEof == [kind |-> "UnexpectedEof", code |-> 0]
BrokenPipe == [kind |-> "BrokenPipe", code |-> 32]

Exited(code) == [kind |-> "exit", val |-> code]
Signaled(sig) == [kind |-> "signal", val |-> sig]
Stopped(sig) == [kind |-> "stop", val |-> sig]

ExitCode(code) == [kind |-> "Code", val |-> code]
ExitSignal(sig) == [kind |-> "Signal", val |-> sig]

SignalInfo(sig, pid, user) == [signal |-> sig, pid |-> pid, user |-> user]

Break(err) == [stop |-> "Break", err |-> err, reason |-> ExitCode(0), status |-> Exited(0)]
ExitBackchannel(err) == [stop |-> "ExitBackchannel", err |-> err, reason |-> ExitCode(0), status |-> Exited(0)]
ExitCommand(reason) == [stop |-> "ExitCommand", err |-> UnexpectedEof, reason |-> reason, status |-> Exited(0)]
ExitStatus(status) == [stop |-> "ExitStatus", err |-> UnexpectedEof, reason |-> ExitCode(0), status |-> status]

Ok(reason) == [ok |-> TRUE, reason |-> reason, err |-> UnexpectedEof]
Err(err) == [ok |-> FALSE, reason |-> ExitCode(0), err |-> err]

\* A signal becomes pending in a process: pending signals of one number
\* coalesce.
Raise(queue, sig) ==
  IF \E i \in 1..Len(queue) : queue[i] = sig THEN queue ELSE Append(queue, sig)

VARIABLES
  \* the parent (exec_pty and ParentClosure)
  pc_p, foreground, term_raw, relay_registered, follower_open_p,
  p_monitor_pid, p_command_pid, message_queue,
  p_batch, p_signals, p_break, p_exit, p_reason, p_result,
  \* the monitor (exec_monitor and MonitorClosure)
  pc_m, m_command_pid, command_pgrp, m_batch, m_signals, m_break, m_exit, m_reason,
  \* the command child (exec_command and the command)
  pc_c, cmd_status, stop_pending, cmd_sigs, cmd_pgid, helper_pgid, exec_errno,
  \* the kernel: both directions of the backchannel, the error pipe, the
  \* follower's foreground process group
  p2m, m2p, errpipe, fg,
  \* history: what each side received, the SignalInfo in delivery, whether
  \* an I/O error happened, the environment's budget
  p_recv, m_recv, p_info, m_info, io_error, env_count, stops,
  \* the monitor as a job of the parent's session ("run", "stopping": stopped
  \* with the stop not yet reported by waitpid, "stopped"), and the system
  \* calls that returned EINTR and have not been made again, and whether the
  \* monitor made a system call on the command's PID after it had reaped it
  mon_job, retry, stale_call

parentVars == <<pc_p, foreground, term_raw, relay_registered, follower_open_p,
                p_monitor_pid, p_command_pid, message_queue,
                p_batch, p_signals, p_break, p_exit, p_reason, p_result>>
monitorVars == <<pc_m, m_command_pid, command_pgrp, m_batch, m_signals,
                 m_break, m_exit, m_reason>>
cmdVars == <<pc_c, cmd_status, stop_pending, cmd_sigs, cmd_pgid, helper_pgid,
             exec_errno>>
kernVars == <<p2m, m2p, errpipe, fg>>
histVars == <<p_recv, m_recv, p_info, m_info, io_error, env_count, stops>>
faultVars == <<mon_job, retry, stale_call>>
vars == <<parentVars, monitorVars, cmdVars, kernVars, histVars, faultVars>>

\* The monitor's process group: getpgid(0) after setsid.
monitor_pgrp == MonitorPid

Init ==
  /\ pc_p = "start" /\ foreground = FALSE /\ term_raw = FALSE
  /\ relay_registered = FALSE /\ follower_open_p = TRUE
  /\ p_monitor_pid = <<>> /\ p_command_pid = <<>> /\ message_queue = <<>>
  /\ p_batch = {} /\ p_signals = <<>> /\ p_break = <<>> /\ p_exit = <<>>
  /\ p_reason = <<>> /\ p_result = <<>>
  /\ pc_m = "unborn" /\ m_command_pid = <<>> /\ command_pgrp = 0
  /\ m_batch = {} /\ m_signals = <<>> /\ m_break = <<>> /\ m_exit = <<>>
  /\ m_reason = <<>>
  /\ pc_c = "unborn" /\ cmd_status = <<>> /\ stop_pending = <<>> /\ cmd_sigs = {}
  /\ cmd_pgid = 0 /\ helper_pgid = 0 /\ exec_errno = <<>>
  /\ p2m = <<>> /\ m2p = <<>> /\ errpipe = <<>> /\ fg = 0
  /\ p_recv = <<>> /\ m_recv = <<>> /\ p_info = <<>> /\ m_info = <<>>
  /\ io_error = FALSE
  /\ env_count = 0 /\ stops = 0
  /\ mon_job = "run" /\ retry = {} /\ stale_call = FALSE

\* The ends of the backchannel: the parent's end is closed when exec_pty
\* returns, the monitor's when the monitor exits.
ParentGone == pc_p = "done"
MonitorGone == pc_m = "exited"

\* The monitor takes steps unless it is stopped.
MonitorRuns == mon_job \notin {"stopping", "stopped"}

\* ------------------------------------------------------- kernel operators

\* getpgid(pid): <<group>>, or <<>> when no such process exists.
getpgid(pid) ==
  IF pid = SudoPid \/ pid = OtherPid THEN <<pid>>
  ELSE IF pid = MonitorPid
    THEN IF pc_m \in {"unborn", "exited"} THEN <<>>
         ELSE IF pc_m = "setsid" THEN <<SudoPid>> ELSE <<MonitorPid>>
  ELSE IF pid = CmdPid
    THEN IF pc_c \in {"unborn", "reaped"} THEN <<>> ELSE <<cmd_pgid>>
  ELSE IF pid = HelperPid /\ helper_pgid # 0 THEN <<helper_pgid>>
  ELSE <<>>

\* A send of the monitor over the backchannel: the message is appended, or
\* the send fails (and is only logged) when the parent's end is closed.
SendToParent(chan, msg) == IF ParentGone THEN chan ELSE Append(chan, msg)

\* ---------------------------------------------------- event dispatcher

\* set_break: the first break stays; set_exit: the last writer wins.
SetBreak(cur, err) == IF cur = <<>> THEN <<err>> ELSE cur
SetExit(cur, val) == <<val>>

\* The stop reasons an iteration that ends with `brk` / `ext` set may return.
StopReasons(brk, ext) ==
  {Break(brk[i]) : i \in 1..Len(brk)} \cup {ext[i] : i \in 1..Len(ext)}

\* The processes that can have sent a signal: the kernel or a process of
\* another PID namespace (pid 0), an unrelated process, the command once it
\* runs, a process the command started.
Senders ==
  {0, OtherPid}
    \cup (IF pc_c \in {"running", "stopped", "zombie", "reaped"} THEN {CmdPid} ELSE {})
    \cup (IF helper_pgid # 0 THEN {HelperPid} ELSE {})

\* The SignalInfo the dispatcher can read for a pending signal `sig` in a
\* process whose child is `child`: the kernel's SIGCHLD names the child; any
\* other signal was sent by a process with kill(2) (user-signaled) or was
\* generated otherwise.
SignalInfos(sig, child) ==
  IF sig = SIGCHLD THEN {SignalInfo(sig, child, FALSE)}
  ELSE {SignalInfo(sig, pid, user) : pid \in Senders, user \in BOOLEAN}

\* ------------------------------------------------------------- the parent

\* exec_pty up to the fork: the dispatcher with the relay callbacks, the
\* foreground test, raw mode.
P_Startup ==
  /\ pc_p = "start"
  /\ \E is_fg \in BOOLEAN, raw_ok \in BOOLEAN :
       /\ foreground' = is_fg
       /\ term_raw' = (is_fg /\ raw_ok)
  /\ relay_registered' = TRUE
  /\ pc_p' = "fork"
  /\ UNCHANGED <<follower_open_p, p_monitor_pid, p_command_pid, message_queue,
                 p_batch, p_signals, p_break, p_exit, p_reason, p_result>>
  /\ UNCHANGED <<monitorVars, cmdVars, kernVars, histVars>>
  /\ UNCHANGED faultVars

\* fork() of the monitor; a failed fork returns the error.
P_ForkMonitor ==
  /\ pc_p = "fork"
  /\ \/ /\ pc_p' = "close" /\ pc_m' = "setsid"
        /\ UNCHANGED <<p_result, io_error>>
     \/ /\ \E e \in ForkErrnos : p_result' = <<Err(OsError(e))>>
        /\ pc_p' = "done" /\ io_error' = TRUE
        /\ UNCHANGED pc_m
  /\ UNCHANGED <<foreground, term_raw, relay_registered, follower_open_p,
                 p_monitor_pid, p_command_pid, message_queue, p_batch, p_signals,
                 p_break, p_exit, p_reason>>
  /\ UNCHANGED <<m_command_pid, command_pgrp, m_batch, m_signals, m_break, m_exit,
                 m_reason>>
  /\ UNCHANGED <<cmdVars, kernVars, p_recv, m_recv, p_info, m_info, env_count, stops>>
  /\ UNCHANGED faultVars

\* A variant of DropFollower that keeps the follower open.
DropFollowerKeep(open) == open

\* drop(pty.follower): whether the parent still holds the follower.
DropFollower(open) == FALSE

\* drop(pty.follower); drop(backchannels.monitor)
P_CloseFollower ==
  /\ pc_p = "close"
  /\ follower_open_p' = DropFollower(follower_open_p)
  /\ pc_p' = "greenlight"
  /\ UNCHANGED <<foreground, term_raw, relay_registered, p_monitor_pid,
                 p_command_pid, message_queue, p_batch, p_signals, p_break, p_exit,
                 p_reason, p_result>>
  /\ UNCHANGED <<monitorVars, cmdVars, kernVars, histVars>>
  /\ UNCHANGED faultVars

\* The message the parent sends as the green light (MonitorMessage::ExecCommand).
GreenLight == ExecCommand

\* retry_while_interrupted(send(ExecCommand)): an error returns from exec_pty.
P_SendExecCommand ==
  /\ pc_p = "greenlight"
  /\ IF MonitorGone
       THEN /\ p_result' = <<Err(BrokenPipe)>> /\ pc_p' = "done"
            /\ io_error' = TRUE /\ UNCHANGED p2m
       ELSE /\ p2m' = Append(p2m, GreenLight) /\ pc_p' = "new"
            /\ UNCHANGED <<p_result, io_error>>
  /\ UNCHANGED <<foreground, term_raw, relay_registered, follower_open_p,
                 p_monitor_pid, p_command_pid, message_queue, p_batch, p_signals,
                 p_break, p_exit, p_reason>>
  /\ UNCHANGED <<monitorVars, cmdVars, m2p, errpipe, fg>>
  /\ UNCHANGED <<p_recv, m_recv, p_info, m_info, env_count, stops>>
  /\ UNCHANGED faultVars

\* ParentClosure::new: the backchannel callbacks, monitor_pid = Some,
\* command_pid = None, an empty message_queue.
P_NewClosure ==
  /\ pc_p = "new"
  /\ p_monitor_pid' = <<MonitorPid>>
  /\ p_command_pid' = <<>>
  /\ message_queue' = <<>>
  /\ pc_p' = "poll"
  /\ UNCHANGED <<foreground, term_raw, relay_registered, follower_open_p, p_batch,
                 p_signals, p_break, p_exit, p_reason, p_result>>
  /\ UNCHANGED <<monitorVars, cmdVars, kernVars, histVars>>
  /\ UNCHANGED faultVars

\* One iteration of the parent's event loop starts: the dispatcher waits for
\* readiness and takes the ready descriptors. The backchannel is readable when
\* a message waits or the monitor's end is closed; its write callback has work
\* when message_queue is not empty.
ParentReadable == m2p # <<>> \/ MonitorGone

P_Poll ==
  /\ pc_p = "poll"
  /\ ParentReadable \/ message_queue # <<>> \/ p_signals # <<>>
  /\ p_batch' = (IF ParentReadable THEN {"read"} ELSE {})
                  \cup (IF message_queue # <<>> THEN {"write"} ELSE {})
  /\ pc_p' = "dispatch"
  /\ UNCHANGED <<foreground, term_raw, relay_registered, follower_open_p,
                 p_monitor_pid, p_command_pid, message_queue, p_signals, p_break,
                 p_exit, p_reason, p_result>>
  /\ UNCHANGED <<monitorVars, cmdVars, kernVars, histVars>>
  /\ UNCHANGED faultVars

\* A variant of CommandExitReason that reads every final message as an exit
\* code.
CommandExitReasonAsCode(msg) == ExitCode(msg.val)

\* The exit reason the parent takes from a final message of the monitor.
CommandExitReason(msg) ==
  IF msg.tag = "CommandExit" THEN ExitCode(msg.val) ELSE ExitSignal(msg.val)

\* A variant of RecvErrorStops that breaks the loop on every error.
RecvErrorBreaks(brk, ext, err) ==
  [brk |-> IF brk # <<>> THEN brk ELSE SetBreak(brk, err), ext |-> ext]

\* on_message_received on a receive error that is not an interruption: the
\* break and the exit of the dispatcher after it.
RecvErrorStops(brk, ext, err) ==
  IF err = UnexpectedEof
    THEN [brk |-> brk, ext |-> SetExit(ext, ExitBackchannel(err))]
    ELSE [brk |-> IF brk # <<>> THEN brk ELSE SetBreak(brk, err), ext |-> ext]

\* ParentClosure::on_message_received
P_OnMessageReceived ==
  /\ pc_p = "dispatch" /\ "read" \in p_batch
  /\ p_batch' = p_batch \ {"read"}
  /\ IF m2p = <<>>
       THEN \* UnexpectedEof: the monitor is gone
            /\ p_exit' = RecvErrorStops(p_break, p_exit, UnexpectedEof).ext
            /\ p_break' = RecvErrorStops(p_break, p_exit, UnexpectedEof).brk
            /\ io_error' = TRUE
            /\ UNCHANGED <<m2p, p_recv, p_command_pid>>
       ELSE LET msg == Head(m2p) IN
            /\ m2p' = Tail(m2p)
            /\ p_recv' = Append(p_recv, msg)
            /\ p_command_pid' =
                 IF msg.tag = "CommandPid" THEN <<msg.val>> ELSE p_command_pid
            /\ p_exit' =
                 IF msg.tag \in {"CommandExit", "CommandSignal"}
                   THEN SetExit(p_exit, ExitCommand(CommandExitReason(msg)))
                   ELSE p_exit
            /\ p_break' =
                 IF msg.tag = "IoError" THEN SetBreak(p_break, OsError(msg.val))
                 ELSE IF msg.tag = "ShortRead" THEN SetBreak(p_break, UnexpectedEof)
                 ELSE p_break
            /\ UNCHANGED io_error
  /\ UNCHANGED <<pc_p, foreground, term_raw, relay_registered, follower_open_p,
                 p_monitor_pid, message_queue, p_signals, p_reason, p_result>>
  /\ UNCHANGED <<monitorVars, cmdVars, p2m, errpipe, fg>>
  /\ UNCHANGED <<m_recv, p_info, m_info, env_count, stops>>
  /\ retry' = retry \ {"p_recv"} /\ UNCHANGED <<mon_job, stale_call>>

\* A variant of schedule_signal that enqueues the green light again.
schedule_signal_green(queue, signal) == Append(queue, ExecCommand)

\* A variant of schedule_signal that puts the message at the head of the queue.
schedule_signal_front(queue, signal) == <<Msg("Signal", signal)>> \o queue

\* ParentClosure::schedule_signal
schedule_signal(queue, signal) == Append(queue, Msg("Signal", signal))

\* A variant of AfterSend that leaves the sent message in the queue.
AfterSendKeep(queue) == queue

\* check_message_queue: message_queue after a successful send (pop_front).
AfterSend(queue) == Tail(queue)

\* ParentClosure::check_message_queue
P_CheckMessageQueue ==
  /\ pc_p = "dispatch" /\ "write" \in p_batch /\ "read" \notin p_batch
  /\ p_batch' = p_batch \ {"write"}
  /\ IF message_queue = <<>>
       THEN UNCHANGED <<message_queue, p2m, p_break, io_error>>
       ELSE IF MonitorGone
         THEN \* BrokenPipe
              /\ p_break' = SetBreak(p_break, BrokenPipe)
              /\ io_error' = TRUE
              /\ UNCHANGED <<message_queue, p2m>>
         ELSE /\ p2m' = Append(p2m, Head(message_queue))
              /\ message_queue' = AfterSend(message_queue)
              /\ UNCHANGED <<p_break, io_error>>
  /\ UNCHANGED <<pc_p, foreground, term_raw, relay_registered, follower_open_p,
                 p_monitor_pid, p_command_pid, p_signals, p_exit, p_reason, p_result>>
  /\ UNCHANGED <<monitorVars, cmdVars, m2p, errpipe, fg>>
  /\ UNCHANGED <<p_recv, m_recv, p_info, m_info, env_count, stops>>
  /\ retry' = retry \ {"p_send"} /\ UNCHANGED <<mon_job, stale_call>>

\* A variant of ParentClosure::is_self_terminating that forgets the process
\* groups.
ParentIsSelfTerminatingPidOnly(signaler_pid, command_pid, sudo_pid) ==
  signaler_pid # 0 /\ <<signaler_pid>> = command_pid

\* ParentClosure::is_self_terminating
ParentIsSelfTerminating(signaler_pid, command_pid, sudo_pid) ==
  /\ signaler_pid # 0
  /\ \/ <<signaler_pid>> = command_pid
     \/ /\ getpgid(signaler_pid) # <<>>
        /\ \/ getpgid(signaler_pid) = command_pid
           \/ getpgid(signaler_pid) = <<sudo_pid>>

\* Whether ParentClosure::on_signal hands `info` to schedule_signal.
ParentForwards(info) ==
  /\ info.signal \notin {SIGCHLD, SIGCONT, SIGWINCH}
  /\ ~(info.user /\ ParentIsSelfTerminating(info.pid, p_command_pid, SudoPid))

\* The dispatcher reads the next pending signal, with the SignalInfo the
\* kernel recorded for it, from its signal stream.
P_TakeSignal ==
  /\ pc_p = "dispatch" /\ p_batch = {} /\ p_signals # <<>>
  /\ \E info \in SignalInfos(Head(p_signals), MonitorPid) : p_info' = <<info>>
  /\ p_signals' = Tail(p_signals)
  /\ pc_p' = "signal"
  /\ UNCHANGED <<foreground, term_raw, relay_registered, follower_open_p,
                 p_monitor_pid, p_command_pid, message_queue, p_batch, p_break,
                 p_exit, p_reason, p_result>>
  /\ UNCHANGED <<monitorVars, cmdVars, kernVars>>
  /\ UNCHANGED <<p_recv, m_recv, m_info, io_error, env_count, stops>>
  /\ UNCHANGED faultVars

\* ParentClosure::on_signal
P_OnSignal ==
  /\ pc_p = "signal"
  /\ LET info == p_info[1] IN
     IF p_monitor_pid = <<>>
       THEN pc_p' = "dispatch" /\ UNCHANGED message_queue
       ELSE IF info.signal = SIGCHLD
         THEN pc_p' = "waitpid" /\ UNCHANGED message_queue
         ELSE /\ message_queue' =
                   IF ParentForwards(info)
                     THEN schedule_signal(message_queue, info.signal)
                     ELSE message_queue
              /\ pc_p' = "dispatch"
  /\ p_info' = <<>>
  /\ UNCHANGED <<foreground, term_raw, relay_registered, follower_open_p,
                 p_monitor_pid, p_command_pid, p_batch, p_signals, p_break, p_exit,
                 p_reason, p_result>>
  /\ UNCHANGED <<monitorVars, cmdVars, kernVars>>
  /\ UNCHANGED <<p_recv, m_recv, m_info, io_error, env_count, stops>>
  /\ UNCHANGED faultVars

\* waitpid(monitor_pid, WUNTRACED | WNOHANG) in the parent: the status of a
\* monitor that exited or was killed, a stop not yet reported, or <<>> when
\* there is no status to report.
WaitpidMonitor ==
  IF MonitorGone
    THEN IF mon_job = "killed" THEN <<Signaled(9)>> ELSE <<Exited(1)>>
  ELSE IF mon_job = "stopping" THEN <<Stopped(SIGTSTP)>>
  ELSE <<>>

\* A variant of MonitorPidAfter that forgets the monitor on every status.
MonitorPidAfterAnyStatus(cur, status) == <<>>

\* handle_sigchld: monitor_pid after the status waitpid returned.
MonitorPidAfter(cur, status) ==
  IF status.kind \in {"exit", "signal"} THEN <<>> ELSE cur

\* A variant of SigchldStops that ends the loop once the monitor is reaped.
SigchldStopsOnReap(ext, status) ==
  IF status.kind \in {"exit", "signal"}
    THEN SetExit(ext, ExitBackchannel(UnexpectedEof))
    ELSE ext

\* handle_sigchld: the exit request after the status waitpid returned: no arm
\* of the match calls set_exit or set_break.
SigchldStops(ext, status) == ext

\* ParentClosure::handle_sigchld: the loop around waitpid(monitor_pid, WNOHANG)
\* ends only with a status.
P_HandleSigchld ==
  /\ pc_p = "waitpid"
  /\ WaitpidMonitor # <<>>
  /\ p_monitor_pid' = MonitorPidAfter(p_monitor_pid, WaitpidMonitor[1])
  /\ p_exit' = SigchldStops(p_exit, WaitpidMonitor[1])
  /\ mon_job' = (IF mon_job = "stopping" /\ ~MonitorGone THEN "stopped" ELSE mon_job)
  /\ pc_p' = "dispatch"
  /\ UNCHANGED <<foreground, term_raw, relay_registered, follower_open_p,
                 p_command_pid, message_queue, p_batch, p_signals, p_break,
                 p_reason, p_result>>
  /\ UNCHANGED <<monitorVars, cmdVars, kernVars, histVars>>
  /\ UNCHANGED <<retry, stale_call>>

\* The iteration ends: the loop stops when a break or an exit is set.
P_EndIteration ==
  /\ pc_p = "dispatch" /\ p_batch = {} /\ p_signals = <<>>
  /\ IF p_break = <<>> /\ p_exit = <<>>
       THEN pc_p' = "poll" /\ UNCHANGED p_reason
       ELSE /\ pc_p' = "stopped"
            /\ \E r \in StopReasons(p_break, p_exit) : p_reason' = <<r>>
  /\ UNCHANGED <<foreground, term_raw, relay_registered, follower_open_p,
                 p_monitor_pid, p_command_pid, message_queue, p_batch, p_signals,
                 p_break, p_exit, p_result>>
  /\ UNCHANGED <<monitorVars, cmdVars, kernVars, histVars>>
  /\ UNCHANGED faultVars

\* A variant of RunResult in which every Exit is a success.
RunResultExitOk(reason) ==
  IF reason.stop = "Break" THEN Err(reason.err) ELSE Ok(reason.reason)

\* ParentClosure::run: the stop reason as the result of exec_pty.
RunResult(reason) ==
  IF reason.stop \in {"Break", "ExitBackchannel"}
    THEN Err(reason.err)
    ELSE Ok(reason.reason)

\* closure.run(&mut dispatcher)?; Ok((exit_reason, ...)): exec_pty returns and
\* the closure, with the parent's end of the backchannel, is dropped.
P_Return ==
  /\ pc_p = "stopped"
  /\ p_result' = <<RunResult(p_reason[1])>>
  /\ pc_p' = "done"
  /\ UNCHANGED <<foreground, term_raw, relay_registered, follower_open_p,
                 p_monitor_pid, p_command_pid, message_queue, p_batch, p_signals,
                 p_break, p_exit, p_reason>>
  /\ UNCHANGED <<monitorVars, cmdVars, kernVars, histVars>>
  /\ UNCHANGED faultVars

\* ------------------------------------------------------------ the monitor

\* io::Error as a ParentMessage (TryFrom): an OS error is IoError(errno), an
\* UnexpectedEof is ShortRead, any other error has no message.
ErrorToMessage(err) ==
  IF err.kind \in {"Os", "BrokenPipe"} THEN <<Msg("IoError", err.code)>>
  ELSE IF err.kind = "UnexpectedEof" THEN <<Msg("ShortRead", 0)>>
  ELSE <<>>

\* WaitStatus as a ParentMessage (From): the exit code or the killing signal.
StatusToMessage(status) ==
  IF status.kind = "exit" THEN Msg("CommandExit", status.val)
  ELSE Msg("CommandSignal", status.val)

\* The monitor process ends: its end of the backchannel closes and the kernel
\* raises SIGCHLD in the parent.
SigchldFromMonitor(queue) ==
  IF ParentGone THEN queue ELSE Raise(queue, SIGCHLD)

\* exec_monitor returned Err(err) to exec_pty's child branch, which sends the
\* error as a message and exits.
MonitorFails(err) ==
  /\ pc_m' = "exited"
  /\ m2p' = (IF ErrorToMessage(err) = <<>> THEN m2p
             ELSE SendToParent(m2p, ErrorToMessage(err)[1]))
  /\ p_signals' = SigchldFromMonitor(p_signals)
  /\ io_error' = TRUE

\* setsid() and set_controlling_terminal(): the monitor leads a new session
\* whose controlling terminal is the follower, and is its foreground group.
M_Setsid ==
  /\ MonitorRuns
  /\ pc_m = "setsid"
  /\ \/ /\ pc_m' = "green" /\ fg' = MonitorPid
        /\ UNCHANGED <<m2p, p_signals, io_error>>
     \/ /\ \E e \in StartupErrnos : MonitorFails(OsError(e))
        /\ UNCHANGED fg
  /\ UNCHANGED <<pc_p, foreground, term_raw, relay_registered, follower_open_p,
                 p_monitor_pid, p_command_pid, message_queue, p_batch, p_break,
                 p_exit, p_reason, p_result>>
  /\ UNCHANGED <<m_command_pid, command_pgrp, m_batch, m_signals, m_break, m_exit,
                 m_reason>>
  /\ UNCHANGED <<cmdVars, p2m, errpipe>>
  /\ UNCHANGED <<p_recv, m_recv, p_info, m_info, env_count, stops>>
  /\ UNCHANGED faultVars

\* retry_while_interrupted(backchannel.recv()): blocks until the green light
\* (or the end of the stream) arrives.
M_RecvGreenLight ==
  /\ MonitorRuns
  /\ pc_m = "green"
  /\ p2m # <<>> \/ ParentGone
  /\ IF p2m # <<>>
       THEN /\ m_recv' = Append(m_recv, Head(p2m))
            /\ p2m' = Tail(p2m)
            /\ pc_m' = "fork"
            /\ UNCHANGED <<m2p, p_signals, io_error>>
       ELSE /\ MonitorFails(UnexpectedEof)
            /\ UNCHANGED <<m_recv, p2m>>
  /\ UNCHANGED <<pc_p, foreground, term_raw, relay_registered, follower_open_p,
                 p_monitor_pid, p_command_pid, message_queue, p_batch, p_break,
                 p_exit, p_reason, p_result>>
  /\ UNCHANGED <<m_command_pid, command_pgrp, m_batch, m_signals, m_break, m_exit,
                 m_reason>>
  /\ UNCHANGED <<cmdVars, errpipe, fg>>
  /\ UNCHANGED <<p_recv, p_info, m_info, env_count, stops>>
  /\ UNCHANGED faultVars

\* fork() of the command: the child starts in the monitor's process group.
M_Fork ==
  /\ MonitorRuns
  /\ pc_m = "fork"
  /\ \/ /\ pc_m' = "sendpid" /\ pc_c' = "setpgid" /\ cmd_pgid' = MonitorPid
        /\ UNCHANGED <<m2p, p_signals, io_error>>
     \/ /\ \E e \in ForkErrnos : MonitorFails(OsError(e))
        /\ UNCHANGED <<pc_c, cmd_pgid>>
  /\ UNCHANGED <<pc_p, foreground, term_raw, relay_registered, follower_open_p,
                 p_monitor_pid, p_command_pid, message_queue, p_batch, p_break,
                 p_exit, p_reason, p_result>>
  /\ UNCHANGED <<m_command_pid, command_pgrp, m_batch, m_signals, m_break, m_exit,
                 m_reason>>
  /\ UNCHANGED <<cmd_status, stop_pending, cmd_sigs, helper_pgid, exec_errno>>
  /\ UNCHANGED <<p2m, errpipe, fg>>
  /\ UNCHANGED <<p_recv, m_recv, p_info, m_info, env_count, stops>>
  /\ UNCHANGED faultVars

\* A variant of SendCommandPid that sends nothing.
SendCommandPidNever(chan, command_pid) == chan

\* backchannel.send(&ParentMessage::CommandPid(command_pid)) after the fork:
\* the backchannel after it.
SendCommandPid(chan, command_pid) == SendToParent(chan, Msg("CommandPid", command_pid))

M_SendCommandPid ==
  /\ MonitorRuns
  /\ pc_m = "sendpid"
  /\ m2p' = SendCommandPid(m2p, CmdPid)
  /\ pc_m' = "new"
  /\ UNCHANGED <<parentVars, cmdVars, p2m, errpipe, fg, histVars>>
  /\ UNCHANGED <<m_command_pid, command_pgrp, m_batch, m_signals, m_break, m_exit,
                 m_reason>>
  /\ UNCHANGED faultVars

\* The child has not called exec yet (setpgid on it still succeeds).
BeforeExec == pc_c \in {"setpgid", "waitfg", "exec"}

\* A variant of SetpgidOfCommand in which the monitor leaves the group of the
\* command to the child.
SetpgidOfCommandSkipped(cur) == cur

\* MonitorClosure::new: setpgid(command_pid, command_pgrp) moves a child that
\* has not called exec into the group of its PID; on a child that has, the
\* call fails and the error is only logged.
SetpgidOfCommand(cur) == IF BeforeExec THEN CmdPid ELSE cur

\* MonitorClosure::new: the callbacks, command_pgrp = command_pid and
\* setpgid(command_pid, command_pgrp).
M_NewClosure ==
  /\ MonitorRuns
  /\ pc_m = "new"
  /\ m_command_pid' = <<CmdPid>>
  /\ command_pgrp' = CmdPid
  /\ cmd_pgid' = SetpgidOfCommand(cmd_pgid)
  /\ pc_m' = "setfg"
  /\ UNCHANGED <<parentVars, kernVars, histVars>>
  /\ UNCHANGED <<m_batch, m_signals, m_break, m_exit, m_reason>>
  /\ UNCHANGED <<pc_c, cmd_status, stop_pending, cmd_sigs, helper_pgid, exec_errno>>
  /\ UNCHANGED faultVars

\* if foreground { tcsetpgrp(&closure.pty_follower, closure.command_pgrp) }
M_SetForeground ==
  /\ MonitorRuns
  /\ pc_m = "setfg"
  /\ fg' = (IF foreground THEN command_pgrp ELSE fg)
  /\ pc_m' = "poll"
  /\ UNCHANGED <<parentVars, cmdVars, p2m, m2p, errpipe, histVars>>
  /\ UNCHANGED <<m_command_pid, command_pgrp, m_batch, m_signals, m_break, m_exit,
                 m_reason>>
  /\ UNCHANGED faultVars

\* One iteration of the monitor's event loop starts. The callbacks were
\* registered for the error pipe first and for the backchannel second.
MonitorReadable == p2m # <<>> \/ ParentGone

M_Poll ==
  /\ MonitorRuns
  /\ pc_m = "poll"
  /\ errpipe # <<>> \/ MonitorReadable \/ m_signals # <<>>
  /\ m_batch' = (IF errpipe # <<>> THEN {"errpipe"} ELSE {})
                  \cup (IF MonitorReadable THEN {"backchannel"} ELSE {})
  /\ pc_m' = "dispatch"
  /\ UNCHANGED <<parentVars, cmdVars, kernVars, histVars>>
  /\ UNCHANGED <<m_command_pid, command_pgrp, m_signals, m_break, m_exit, m_reason>>
  /\ UNCHANGED faultVars

\* MonitorClosure::read_errpipe
M_ReadErrpipe ==
  /\ MonitorRuns
  /\ pc_m = "dispatch" /\ "errpipe" \in m_batch
  /\ m_batch' = m_batch \ {"errpipe"}
  /\ m2p' = SendToParent(m2p, Msg("IoError", Head(errpipe)))
  /\ errpipe' = Tail(errpipe)
  /\ UNCHANGED <<parentVars, cmdVars, p2m, fg, histVars>>
  /\ UNCHANGED <<pc_m, m_command_pid, command_pgrp, m_signals, m_break, m_exit,
                 m_reason>>
  /\ retry' = retry \ {"m_errpipe"} /\ UNCHANGED <<mon_job, stale_call>>

\* terminate_process(command_pid, false): the signals it sends.
TerminateSignals == {9}

\* A variant of SendSignalForeground with the groups of the two tokens
\* exchanged.
SendSignalForegroundSwapped(signal, cur) ==
  IF signal = SIGCONT_FG THEN monitor_pgrp
  ELSE IF signal = SIGCONT_BG THEN command_pgrp
  ELSE cur

\* MonitorClosure::send_signal: the foreground group of the follower after it
\* and the signals it sends to the command.
SendSignalForeground(signal, cur) ==
  IF signal = SIGCONT_FG THEN command_pgrp
  ELSE IF signal = SIGCONT_BG THEN monitor_pgrp
  ELSE cur

SendSignalKills(signal) ==
  IF signal = SIGALRM THEN TerminateSignals
  ELSE IF signal \in {SIGCONT_FG, SIGCONT_BG} THEN {SIGCONT}
  ELSE {signal}

\* The tokens of send_signal that change the foreground group before the kill.
ResumeTokens == {SIGCONT_FG, SIGCONT_BG}

\* kill(command_pid, ...): signals become pending in a command that lives.
CommandAlive == pc_c \in {"setpgid", "waitfg", "exec", "failed", "running", "stopped"}
Kill(pending, sigs) == IF CommandAlive THEN pending \cup sigs ELSE pending

\* A system call on the command's PID, made with the recorded `pid`, comes
\* after the monitor has reaped the command.
CallsOnReaped(pid) == pid # <<>> /\ pc_c = "reaped"

\* MonitorClosure::read_backchannel
M_ReadBackchannel ==
  /\ MonitorRuns
  /\ pc_m = "dispatch" /\ "backchannel" \in m_batch /\ "errpipe" \notin m_batch
  /\ m_batch' = m_batch \ {"backchannel"}
  /\ IF p2m = <<>>
       THEN \* UnexpectedEof: the parent is gone
            /\ m_break' = SetBreak(m_break, UnexpectedEof)
            /\ io_error' = TRUE
            /\ UNCHANGED <<p2m, m_recv, fg, cmd_sigs, pc_m, p_signals>>
       ELSE LET msg == Head(p2m) IN
            /\ p2m' = Tail(p2m)
            /\ m_recv' = Append(m_recv, msg)
            /\ UNCHANGED <<m_break, io_error>>
            /\ IF msg.tag = "ExecCommand"
                 THEN \* unreachable!(): the monitor panics
                      /\ pc_m' = "exited"
                      /\ p_signals' = SigchldFromMonitor(p_signals)
                      /\ UNCHANGED <<fg, cmd_sigs>>
                 ELSE /\ UNCHANGED p_signals
                      /\ IF m_command_pid # <<>>
                           THEN /\ fg' = SendSignalForeground(msg.val, fg)
                                /\ IF msg.val \in ResumeTokens
                                     THEN \* the kill is the next system call
                                          /\ pc_m' = "sendcont"
                                          /\ UNCHANGED cmd_sigs
                                     ELSE /\ cmd_sigs' =
                                               Kill(cmd_sigs, SendSignalKills(msg.val))
                                          /\ UNCHANGED pc_m
                           ELSE UNCHANGED <<fg, cmd_sigs, pc_m>>
  /\ UNCHANGED <<pc_p, foreground, term_raw, relay_registered, follower_open_p,
                 p_monitor_pid, p_command_pid, message_queue, p_batch, p_break,
                 p_exit, p_reason, p_result>>
  /\ UNCHANGED <<m_command_pid, command_pgrp, m_signals, m_exit, m_reason>>
  /\ UNCHANGED <<pc_c, cmd_status, stop_pending, cmd_pgid, helper_pgid, exec_errno>>
  /\ UNCHANGED <<m2p, errpipe>>
  /\ UNCHANGED <<p_recv, p_info, m_info, env_count, stops>>
  /\ retry' = retry \ {"m_recv"} /\ UNCHANGED mon_job
  /\ stale_call' = (stale_call \/ (/\ p2m # <<>> /\ Head(p2m).tag = "Signal"
                                    /\ CallsOnReaped(m_command_pid)))

\* send_signal on a resume token, after its tcsetpgrp: kill(command_pid, SIGCONT).
M_SendCont ==
  /\ MonitorRuns
  /\ pc_m = "sendcont"
  /\ cmd_sigs' = Kill(cmd_sigs, SendSignalKills(m_recv[Len(m_recv)].val))
  /\ pc_m' = "dispatch"
  /\ UNCHANGED <<parentVars, kernVars, histVars>>
  /\ UNCHANGED <<m_command_pid, command_pgrp, m_batch, m_signals, m_break, m_exit,
                 m_reason>>
  /\ UNCHANGED <<pc_c, cmd_status, stop_pending, cmd_pgid, helper_pgid, exec_errno>>
  /\ UNCHANGED faultVars

\* A variant of is_self_terminating that forgets the process group.
is_self_terminating_pid_only(signaler_pid, command_pid, cmd_pgrp) ==
  signaler_pid # 0 /\ signaler_pid = command_pid

\* is_self_terminating (monitor.rs)
is_self_terminating(signaler_pid, command_pid, cmd_pgrp) ==
  /\ signaler_pid # 0
  /\ \/ signaler_pid = command_pid
     \/ getpgid(signaler_pid) = <<cmd_pgrp>>

\* A variant of handle_sigchld_exit that forgets the death by a signal.
handle_sigchld_exit_code_only(cur, status) ==
  IF status.kind = "exit" THEN SetExit(cur, ExitStatus(status)) ELSE cur

\* A variant of handle_sigchld_exit that sets the exit on every status.
handle_sigchld_exit_any_status(cur, status) == SetExit(cur, ExitStatus(status))

\* handle_sigchld: an exit status or a terminating signal sets the exit of
\* the dispatcher; no other status does.
handle_sigchld_exit(cur, status) ==
  IF status.kind = "exit" THEN SetExit(cur, ExitStatus(status))
  ELSE IF status.kind = "signal" THEN SetExit(cur, ExitStatus(status))
  ELSE cur

\* A variant of StopMessage that reports a stop as a CommandSignal.
StopMessageAsSignal(sig) == Msg("CommandSignal", sig)

\* handle_sigchld: the message sent to the parent for a stop.
StopMessage(sig) == Msg("CommandStatus", sig)

\* waitpid(command_pid, WUNTRACED | WNOHANG): the terminal status of a zombie,
\* a stop not yet reported, or <<>> when there is no status to report.
WaitpidCommand ==
  IF pc_c = "zombie" THEN cmd_status
  ELSE IF stop_pending # <<>> THEN <<Stopped(stop_pending[1])>>
  ELSE <<>>

\* A variant of AfterReap that keeps the PID of the reaped command.
AfterReapKeep(pid) == pid

\* handle_sigchld: command_pid after the command was reaped as exited or
\* killed (self.command_pid = None).
AfterReap(pid) == <<>>

\* What MonitorClosure::on_signal does with `info`: nothing ("ignore"), reap a
\* terminated command ("terminal"), note a stop ("stop") or send_signal ("send").
MonitorSignalCase(info) ==
  IF m_command_pid = <<>> THEN "ignore"
  ELSE IF info.signal = SIGCHLD
    THEN IF WaitpidCommand = <<>> THEN "ignore"
         ELSE IF WaitpidCommand[1].kind = "stop" THEN "stop"
         ELSE "terminal"
  ELSE IF info.user /\ is_self_terminating(info.pid, m_command_pid[1], command_pgrp)
    THEN "ignore"
  ELSE "send"

\* The dispatcher reads the next pending signal, with its SignalInfo, from
\* its signal stream.
M_TakeSignal ==
  /\ MonitorRuns
  /\ pc_m = "dispatch" /\ m_batch = {} /\ m_signals # <<>>
  /\ \E info \in SignalInfos(Head(m_signals), CmdPid) : m_info' = <<info>>
  /\ m_signals' = Tail(m_signals)
  /\ pc_m' = "signal"
  /\ UNCHANGED <<parentVars, cmdVars, kernVars>>
  /\ UNCHANGED <<m_command_pid, command_pgrp, m_batch, m_break, m_exit, m_reason>>
  /\ UNCHANGED <<p_recv, m_recv, p_info, io_error, env_count, stops>>
  /\ UNCHANGED faultVars

\* A variant of SavedForeground that saves every foreground group.
SavedForegroundAlways(cur, group) == group

\* handle_sigchld, stop arm: command_pgrp after tcgetpgrp(&self.pty_follower)
\* returned `group`: saved unless it is the monitor's own group.
SavedForeground(cur, group) == IF group # monitor_pgrp THEN group ELSE cur

\* MonitorClosure::on_signal with handle_sigchld
M_OnSignal ==
  /\ MonitorRuns
  /\ pc_m = "signal"
  /\ LET info == m_info[1]
         case == MonitorSignalCase(info)
     IN
     /\ m_command_pid' = (IF case = "terminal" THEN AfterReap(m_command_pid)
                          ELSE m_command_pid)
     /\ m_exit' = (IF case \in {"terminal", "stop"}
                     THEN handle_sigchld_exit(m_exit, WaitpidCommand[1])
                     ELSE m_exit)
     /\ pc_c' = (IF case = "terminal" THEN "reaped" ELSE pc_c)
     /\ command_pgrp' = (IF case = "stop" THEN SavedForeground(command_pgrp, fg)
                         ELSE command_pgrp)
     /\ stop_pending' = (IF case = "stop" THEN <<>> ELSE stop_pending)
     /\ m2p' = (IF case = "stop"
                  THEN SendToParent(m2p, StopMessage(WaitpidCommand[1].val))
                  ELSE m2p)
     /\ fg' = (IF case = "send" THEN SendSignalForeground(info.signal, fg) ELSE fg)
     /\ cmd_sigs' = (IF case = "send"
                       THEN Kill(cmd_sigs, SendSignalKills(info.signal))
                       ELSE cmd_sigs)
  /\ m_info' = <<>>
  /\ pc_m' = "dispatch"
  /\ UNCHANGED <<parentVars, p2m, errpipe>>
  /\ UNCHANGED <<m_batch, m_signals, m_break, m_reason>>
  /\ UNCHANGED <<cmd_status, cmd_pgid, helper_pgid, exec_errno>>
  /\ UNCHANGED <<p_recv, m_recv, p_info, io_error, env_count, stops>>
  /\ stale_call' = (stale_call \/ (/\ CallsOnReaped(m_command_pid)
                                    /\ \/ m_info[1].signal = SIGCHLD
                                       \/ MonitorSignalCase(m_info[1]) = "send"))
  /\ UNCHANGED <<mon_job, retry>>

\* The iteration ends: the loop stops when a break or an exit is set.
M_EndIteration ==
  /\ MonitorRuns
  /\ pc_m = "dispatch" /\ m_batch = {} /\ m_signals = <<>>
  /\ IF m_break = <<>> /\ m_exit = <<>>
       THEN pc_m' = "poll" /\ UNCHANGED m_reason
       ELSE /\ pc_m' = "teardown"
            /\ \E r \in StopReasons(m_break, m_exit) : m_reason' = <<r>>
  /\ UNCHANGED <<parentVars, cmdVars, kernVars, histVars>>
  /\ UNCHANGED <<m_command_pid, command_pgrp, m_batch, m_signals, m_break, m_exit>>
  /\ UNCHANGED faultVars

\* A variant of TeardownForeground that leaves the foreground group alone.
TeardownForegroundKeep(cur) == cur

\* tcsetpgrp(&closure.pty_follower, closure.monitor_pgrp) after the loop: the
\* foreground group of the follower after it.
TeardownForeground(cur) == monitor_pgrp

M_Teardown ==
  /\ MonitorRuns
  /\ pc_m = "teardown"
  /\ fg' = TeardownForeground(fg)
  /\ pc_m' = "final"
  /\ UNCHANGED <<parentVars, cmdVars, p2m, m2p, errpipe, histVars>>
  /\ UNCHANGED <<m_command_pid, command_pgrp, m_batch, m_signals, m_break, m_exit,
                 m_reason>>
  /\ UNCHANGED faultVars

\* match reason { Break(err) => send(err.try_into()), Exit(status) => send(status.into()) }
FinalMessage(reason) ==
  IF reason.stop = "Break" THEN ErrorToMessage(reason.err)
  ELSE <<StatusToMessage(reason.status)>>

\* The final message, drop(closure) and exit(1).
M_FinalSend ==
  /\ MonitorRuns
  /\ pc_m = "final"
  /\ m2p' = (IF FinalMessage(m_reason[1]) = <<>> THEN m2p
             ELSE SendToParent(m2p, FinalMessage(m_reason[1])[1]))
  /\ pc_m' = "exited"
  /\ p_signals' = SigchldFromMonitor(p_signals)
  /\ UNCHANGED <<pc_p, foreground, term_raw, relay_registered, follower_open_p,
                 p_monitor_pid, p_command_pid, message_queue, p_batch, p_break,
                 p_exit, p_reason, p_result>>
  /\ UNCHANGED <<m_command_pid, command_pgrp, m_batch, m_signals, m_break, m_exit,
                 m_reason>>
  /\ UNCHANGED <<cmdVars, p2m, errpipe, fg, histVars>>
  /\ UNCHANGED faultVars

\* ------------------------------------------------------ the command child

\* The kernel raises SIGCHLD in the monitor when its child changes state.
SigchldFromCommand(queue) ==
  IF pc_m \in {"unborn", "exited"} THEN queue
  ELSE Raise(queue, SIGCHLD)

\* The command process ends with `status` and stays a zombie until reaped.
CommandDies(status) ==
  /\ pc_c' = "zombie"
  /\ cmd_status' = <<status>>
  /\ stop_pending' = <<>>
  /\ cmd_sigs' = {}
  /\ m_signals' = SigchldFromCommand(m_signals)

\* exec_command: setpgid(0, command_pid)
C_Setpgid ==
  /\ pc_c = "setpgid"
  /\ cmd_pgid' = CmdPid
  /\ pc_c' = "waitfg"
  /\ UNCHANGED <<parentVars, monitorVars, kernVars, histVars>>
  /\ UNCHANGED <<cmd_status, stop_pending, cmd_sigs, helper_pgid, exec_errno>>
  /\ UNCHANGED faultVars

\* A variant of ForegroundWaitOver that does not look at the follower.
ForegroundWaitSkipped(want, group) == TRUE

\* exec_command: the wait is over when no foreground was requested or
\* tcgetpgrp(&pty_follower) returns the child's own PID.
ForegroundWaitOver(want, group) == ~want \/ group = CmdPid

\* exec_command: while !tcgetpgrp(&pty_follower).is_ok_and(|pid| pid == command_pid)
C_WaitForeground ==
  /\ pc_c = "waitfg"
  /\ ForegroundWaitOver(foreground, fg)
  /\ pc_c' = "exec"
  /\ UNCHANGED <<parentVars, monitorVars, kernVars, histVars>>
  /\ UNCHANGED <<cmd_status, stop_pending, cmd_sigs, cmd_pgid, helper_pgid, exec_errno>>
  /\ UNCHANGED faultVars

\* command.exec(): the command runs, or exec fails and the child writes the
\* errno to the error pipe.
C_Exec ==
  /\ pc_c = "exec"
  /\ \/ /\ pc_c' = "running" /\ helper_pgid' = CmdPid
        /\ UNCHANGED <<errpipe, io_error, exec_errno>>
     \/ /\ \E e \in ExecErrnos :
             errpipe' = Append(errpipe, e) /\ exec_errno' = <<e>>
        /\ pc_c' = "failed" /\ io_error' = TRUE
        /\ UNCHANGED helper_pgid
  /\ UNCHANGED <<parentVars, monitorVars, p2m, m2p, fg>>
  /\ UNCHANGED <<cmd_status, stop_pending, cmd_sigs, cmd_pgid>>
  /\ UNCHANGED <<p_recv, m_recv, p_info, m_info, env_count, stops>>
  /\ UNCHANGED faultVars

\* exit(1) of the child whose exec failed
C_ExitAfterFailedExec ==
  /\ pc_c = "failed"
  /\ CommandDies(Exited(1))
  /\ UNCHANGED <<parentVars, kernVars, histVars, cmd_pgid, helper_pgid, exec_errno>>
  /\ UNCHANGED <<pc_m, m_command_pid, command_pgrp, m_batch, m_break, m_exit,
                 m_reason>>
  /\ UNCHANGED faultVars

\* The command exits with a code, or kills itself with a signal.
C_Terminate ==
  /\ pc_c = "running"
  /\ \E status \in {Exited(c) : c \in ExitCodes}
                     \cup {Signaled(sig) : sig \in SelfKillSignals} :
       CommandDies(status)
  /\ UNCHANGED <<parentVars, kernVars, histVars, cmd_pgid, helper_pgid, exec_errno>>
  /\ UNCHANGED <<pc_m, m_command_pid, command_pgrp, m_batch, m_break, m_exit,
                 m_reason>>
  /\ UNCHANGED faultVars

\* A pending signal is delivered to the command: it kills the command (the
\* default action), is handled or ignored by it, or continues it.
C_Deliver ==
  /\ \E sig \in cmd_sigs :
       \/ /\ pc_c \in {"setpgid", "waitfg", "exec", "running"} /\ sig # SIGCONT
          /\ CommandDies(Signaled(sig))
          /\ UNCHANGED stops
       \/ /\ pc_c = "stopped" /\ sig = 9
          /\ CommandDies(Signaled(sig))
          /\ UNCHANGED stops
       \/ /\ pc_c = "running" /\ sig # 9
          /\ cmd_sigs' = cmd_sigs \ {sig}
          /\ UNCHANGED <<pc_c, cmd_status, stop_pending, m_signals, stops>>
       \/ /\ pc_c = "stopped" /\ sig = SIGCONT
          /\ cmd_sigs' = cmd_sigs \ {sig}
          /\ pc_c' = "running" /\ stop_pending' = <<>>
          /\ m_signals' = SigchldFromCommand(m_signals)
          /\ UNCHANGED <<cmd_status, stops>>
  /\ UNCHANGED <<parentVars, kernVars, cmd_pgid, helper_pgid, exec_errno>>
  /\ UNCHANGED <<pc_m, m_command_pid, command_pgrp, m_batch, m_break, m_exit,
                 m_reason>>
  /\ UNCHANGED <<p_recv, m_recv, p_info, m_info, io_error, env_count>>
  /\ UNCHANGED faultVars

\* The command is stopped (SIGTSTP), or continued by a SIGCONT sent to it
\* directly.
C_Stop ==
  /\ pc_c = "running" /\ stops < MaxStops
  /\ pc_c' = "stopped"
  /\ stop_pending' = <<SIGTSTP>>
  /\ stops' = stops + 1
  /\ m_signals' = SigchldFromCommand(m_signals)
  /\ UNCHANGED <<parentVars, kernVars, cmd_status, cmd_sigs, cmd_pgid, helper_pgid, exec_errno>>
  /\ UNCHANGED <<pc_m, m_command_pid, command_pgrp, m_batch, m_break, m_exit,
                 m_reason>>
  /\ UNCHANGED <<p_recv, m_recv, p_info, m_info, io_error, env_count>>
  /\ UNCHANGED faultVars

C_Continue ==
  /\ pc_c = "stopped"
  /\ pc_c' = "running"
  /\ stop_pending' = <<>>
  /\ m_signals' = SigchldFromCommand(m_signals)
  /\ UNCHANGED <<parentVars, kernVars, histVars>>
  /\ UNCHANGED <<cmd_status, cmd_sigs, cmd_pgid, helper_pgid, exec_errno>>
  /\ UNCHANGED <<pc_m, m_command_pid, command_pgrp, m_batch, m_break, m_exit,
                 m_reason>>
  /\ UNCHANGED faultVars

\* Job control by the command (a shell): it puts a job in a process group of
\* its own and makes that group the foreground group of the follower. Only a
\* member of the foreground group may do so.
C_Job ==
  /\ pc_c = "running" /\ fg = cmd_pgid /\ helper_pgid = CmdPid
  /\ helper_pgid' = HelperPid
  /\ fg' = HelperPid
  /\ UNCHANGED <<parentVars, monitorVars, histVars, p2m, m2p, errpipe>>
  /\ UNCHANGED <<pc_c, cmd_status, stop_pending, cmd_sigs, cmd_pgid, exec_errno>>
  /\ UNCHANGED faultVars

\* -------------------------------------------------------- the environment

\* The signals other processes send: to the parent one it relays, SIGCHLD and
\* one it keeps to itself; to the monitor one it relays and SIGALRM.
EnvParentSignals == {SIGINT, SIGCHLD, SIGWINCH}
EnvMonitorSignals == {SIGINT, SIGALRM}

\* A signal arrives at the parent, whose handlers exist from the creation of
\* its dispatcher to its return.
Env_SignalParent ==
  /\ pc_p \notin {"start", "done"}
  /\ env_count < MaxEnvSignals
  /\ \E sig \in EnvParentSignals : p_signals' = Raise(p_signals, sig)
  /\ env_count' = env_count + 1
  /\ UNCHANGED <<pc_p, foreground, term_raw, relay_registered, follower_open_p,
                 p_monitor_pid, p_command_pid, message_queue, p_batch, p_break,
                 p_exit, p_reason, p_result>>
  /\ UNCHANGED <<monitorVars, cmdVars, kernVars>>
  /\ UNCHANGED <<p_recv, m_recv, p_info, m_info, io_error, stops>>
  /\ UNCHANGED faultVars

\* A signal arrives at the monitor.
Env_SignalMonitor ==
  /\ pc_m \notin {"unborn", "exited"}
  /\ env_count < MaxEnvSignals
  /\ \E sig \in EnvMonitorSignals : m_signals' = Raise(m_signals, sig)
  /\ env_count' = env_count + 1
  /\ UNCHANGED <<parentVars, cmdVars, kernVars>>
  /\ UNCHANGED <<pc_m, m_command_pid, command_pgrp, m_batch, m_break, m_exit,
                 m_reason>>
  /\ UNCHANGED <<p_recv, m_recv, p_info, m_info, io_error, stops>>
  /\ UNCHANGED faultVars

\* ------------------------------------------------------ the specification

ParentNext ==
  \/ P_Startup \/ P_ForkMonitor \/ P_CloseFollower \/ P_SendExecCommand
  \/ P_NewClosure \/ P_Poll \/ P_OnMessageReceived \/ P_CheckMessageQueue
  \/ P_TakeSignal \/ P_OnSignal \/ P_HandleSigchld \/ P_EndIteration \/ P_Return

MonitorNext ==
  \/ M_Setsid \/ M_RecvGreenLight \/ M_Fork \/ M_SendCommandPid \/ M_NewClosure
  \/ M_SetForeground \/ M_Poll \/ M_ReadErrpipe \/ M_ReadBackchannel
  \/ M_TakeSignal \/ M_OnSignal \/ M_EndIteration \/ M_Teardown \/ M_FinalSend

CommandNext ==
  \/ C_Setpgid \/ C_WaitForeground \/ C_Exec \/ C_ExitAfterFailedExec
  \/ C_Terminate \/ C_Deliver \/ C_Stop \/ C_Continue \/ C_Job

EnvNext == Env_SignalParent \/ Env_SignalMonitor

Next == ParentNext \/ MonitorNext \/ CommandNext \/ EnvNext

Spec == Init /\ [][Next]_vars

\* Fair scheduling of the two processes of sudo: the parent and the monitor
\* each take a step they can take. The command and the environment owe
\* nothing.
FairSpec == Spec /\ WF_vars(ParentNext) /\ WF_vars(MonitorNext)

\* Fair scheduling of the start of the command as well: the child of the
\* monitor takes its steps up to exec; its loop around tcgetpgrp sleeps one
\* microsecond between two looks, so it looks again and again.
StartSpec ==
  /\ Spec /\ WF_vars(ParentNext) /\ WF_vars(MonitorNext)
  /\ WF_vars(C_Setpgid) /\ WF_vars(C_WaitForeground)

\* The relay of signals under load: other processes send the parent up to
\* MaxRelaySignals signals, one the parent relays and SIGCHLD, and nothing
\* else disturbs the run.
MaxRelaySignals == 2

RelaySignals == {SIGINT, SIGCHLD}

Env_RelaySignal ==
  /\ pc_p \notin {"start", "done"}
  /\ env_count < MaxRelaySignals
  /\ \E sig \in RelaySignals : p_signals' = Raise(p_signals, sig)
  /\ env_count' = env_count + 1
  /\ UNCHANGED <<pc_p, foreground, term_raw, relay_registered, follower_open_p,
                 p_monitor_pid, p_command_pid, message_queue, p_batch, p_break,
                 p_exit, p_reason, p_result>>
  /\ UNCHANGED <<monitorVars, cmdVars, kernVars>>
  /\ UNCHANGED <<p_recv, m_recv, p_info, m_info, io_error, stops>>
  /\ UNCHANGED faultVars

RelayNext == ParentNext \/ MonitorNext \/ CommandNext \/ Env_RelaySignal

RelaySpec ==
  Init /\ [][RelayNext]_vars /\ WF_vars(ParentNext) /\ WF_vars(MonitorNext)

\* Job control over the backchannel: the resume tokens SIGCONT_FG and
\* SIGCONT_BG are inputs of read_backchannel. ParentClosure::on_signal has no
\* code for SIGCONT yet and schedules neither token, so here a token is handed
\* to schedule_signal while the parent runs its loop, at most MaxTokens times.
MaxTokens == 2

Env_Token ==
  /\ pc_p \in {"poll", "dispatch", "signal", "waitpid"}
  /\ env_count < MaxTokens
  /\ \E token \in ResumeTokens :
       message_queue' = schedule_signal(message_queue, token)
  /\ env_count' = env_count + 1
  /\ UNCHANGED <<pc_p, foreground, term_raw, relay_registered, follower_open_p,
                 p_monitor_pid, p_command_pid, p_batch, p_signals, p_break,
                 p_exit, p_reason, p_result>>
  /\ UNCHANGED <<monitorVars, cmdVars, kernVars>>
  /\ UNCHANGED <<p_recv, m_recv, p_info, m_info, io_error, stops>>
  /\ UNCHANGED faultVars

JobNext ==
  ParentNext \/ MonitorNext \/ M_SendCont \/ CommandNext \/ Env_Token

JobSpec == Init /\ [][JobNext]_vars

\* The fate of the monitor as a child of the parent: other processes stop
\* it, continue it or kill it, with at most MaxFates stops and kills. Each
\* change of its state raises SIGCHLD in the parent.
MaxFates == 1

Env_StopMonitor ==
  /\ pc_m \notin {"unborn", "exited"} /\ mon_job = "run"
  /\ env_count < MaxFates
  /\ mon_job' = "stopping"
  /\ p_signals' = SigchldFromMonitor(p_signals)
  /\ env_count' = env_count + 1
  /\ UNCHANGED <<pc_p, foreground, term_raw, relay_registered, follower_open_p,
                 p_monitor_pid, p_command_pid, message_queue, p_batch, p_break,
                 p_exit, p_reason, p_result>>
  /\ UNCHANGED <<monitorVars, cmdVars, kernVars, retry, stale_call>>
  /\ UNCHANGED <<p_recv, m_recv, p_info, m_info, io_error, stops>>

Env_ContinueMonitor ==
  /\ pc_m \notin {"unborn", "exited"} /\ mon_job \in {"stopping", "stopped"}
  /\ mon_job' = "run"
  /\ p_signals' = SigchldFromMonitor(p_signals)
  /\ UNCHANGED <<pc_p, foreground, term_raw, relay_registered, follower_open_p,
                 p_monitor_pid, p_command_pid, message_queue, p_batch, p_break,
                 p_exit, p_reason, p_result>>
  /\ UNCHANGED <<monitorVars, cmdVars, kernVars, histVars, retry, stale_call>>

Env_KillMonitor ==
  /\ pc_m \notin {"unborn", "exited"}
  /\ env_count < MaxFates
  /\ pc_m' = "exited" /\ mon_job' = "killed"
  /\ p_signals' = SigchldFromMonitor(p_signals)
  /\ env_count' = env_count + 1
  /\ UNCHANGED <<pc_p, foreground, term_raw, relay_registered, follower_open_p,
                 p_monitor_pid, p_command_pid, message_queue, p_batch, p_break,
                 p_exit, p_reason, p_result>>
  /\ UNCHANGED <<m_command_pid, command_pgrp, m_batch, m_signals, m_break, m_exit,
                 m_reason>>
  /\ UNCHANGED <<cmdVars, kernVars, retry, stale_call>>
  /\ UNCHANGED <<p_recv, m_recv, p_info, m_info, io_error, stops>>

FateNext ==
  \/ ParentNext \/ MonitorNext \/ CommandNext \/ EnvNext
  \/ Env_StopMonitor \/ Env_ContinueMonitor \/ Env_KillMonitor

FateSpec == Init /\ [][FateNext]_vars

\* System calls that fail: at most MaxFaults calls of the parent and the
\* monitor return EINTR, or, for a recv of the parent, another error. Each
\* action is the handler that made the call, with that outcome.
MaxFaults == 2

RecvErrnos == {104}

\* on_message_received: recv returns EINTR.
P_RecvInterrupted ==
  /\ pc_p = "dispatch" /\ "read" \in p_batch
  /\ env_count < MaxFaults
  /\ p_batch' = p_batch \ {"read"}
  /\ retry' = retry \cup {"p_recv"}
  /\ env_count' = env_count + 1
  /\ UNCHANGED <<pc_p, foreground, term_raw, relay_registered, follower_open_p,
                 p_monitor_pid, p_command_pid, message_queue, p_signals, p_break,
                 p_exit, p_reason, p_result>>
  /\ UNCHANGED <<monitorVars, cmdVars, kernVars, mon_job, stale_call>>
  /\ UNCHANGED <<p_recv, m_recv, p_info, m_info, io_error, stops>>

\* on_message_received: recv returns an error that is neither EINTR nor EOF.
P_RecvFails ==
  /\ pc_p = "dispatch" /\ "read" \in p_batch
  /\ env_count < MaxFaults
  /\ p_batch' = p_batch \ {"read"}
  /\ \E e \in RecvErrnos :
       /\ p_break' = RecvErrorStops(p_break, p_exit, OsError(e)).brk
       /\ p_exit' = RecvErrorStops(p_break, p_exit, OsError(e)).ext
  /\ io_error' = TRUE
  /\ env_count' = env_count + 1
  /\ UNCHANGED <<pc_p, foreground, term_raw, relay_registered, follower_open_p,
                 p_monitor_pid, p_command_pid, message_queue, p_signals,
                 p_reason, p_result>>
  /\ UNCHANGED <<monitorVars, cmdVars, kernVars, faultVars>>
  /\ UNCHANGED <<p_recv, m_recv, p_info, m_info, stops>>

\* check_message_queue: send returns EINTR, an error that is not BrokenPipe.
P_SendInterrupted ==
  /\ pc_p = "dispatch" /\ "write" \in p_batch /\ "read" \notin p_batch
  /\ message_queue # <<>>
  /\ env_count < MaxFaults
  /\ p_batch' = p_batch \ {"write"}
  /\ retry' = retry \cup {"p_send"}
  /\ env_count' = env_count + 1
  /\ UNCHANGED <<pc_p, foreground, term_raw, relay_registered, follower_open_p,
                 p_monitor_pid, p_command_pid, message_queue, p_signals, p_break,
                 p_exit, p_reason, p_result>>
  /\ UNCHANGED <<monitorVars, cmdVars, kernVars, mon_job, stale_call>>
  /\ UNCHANGED <<p_recv, m_recv, p_info, m_info, io_error, stops>>

\* ParentClosure::handle_sigchld: waitpid returns EINTR and the loop calls it
\* again.
P_WaitpidInterrupted ==
  /\ pc_p = "waitpid"
  /\ env_count < MaxFaults
  /\ env_count' = env_count + 1
  /\ UNCHANGED <<parentVars, monitorVars, cmdVars, kernVars, faultVars>>
  /\ UNCHANGED <<p_recv, m_recv, p_info, m_info, io_error, stops>>

\* read_backchannel: recv returns EINTR.
M_RecvInterrupted ==
  /\ MonitorRuns
  /\ pc_m = "dispatch" /\ "backchannel" \in m_batch /\ "errpipe" \notin m_batch
  /\ env_count < MaxFaults
  /\ m_batch' = m_batch \ {"backchannel"}
  /\ retry' = retry \cup {"m_recv"}
  /\ env_count' = env_count + 1
  /\ UNCHANGED <<parentVars, cmdVars, kernVars, mon_job, stale_call>>
  /\ UNCHANGED <<pc_m, m_command_pid, command_pgrp, m_signals, m_break, m_exit,
                 m_reason>>
  /\ UNCHANGED <<p_recv, m_recv, p_info, m_info, io_error, stops>>

\* read_errpipe: read_exact returns EINTR.
M_ErrpipeInterrupted ==
  /\ MonitorRuns
  /\ pc_m = "dispatch" /\ "errpipe" \in m_batch
  /\ env_count < MaxFaults
  /\ m_batch' = m_batch \ {"errpipe"}
  /\ retry' = retry \cup {"m_errpipe"}
  /\ env_count' = env_count + 1
  /\ UNCHANGED <<parentVars, cmdVars, kernVars, mon_job, stale_call>>
  /\ UNCHANGED <<pc_m, m_command_pid, command_pgrp, m_signals, m_break, m_exit,
                 m_reason>>
  /\ UNCHANGED <<p_recv, m_recv, p_info, m_info, io_error, stops>>

\* MonitorClosure::handle_sigchld: waitpid returns EINTR and the loop calls it
\* again.
M_WaitpidInterrupted ==
  /\ MonitorRuns
  /\ pc_m = "signal" /\ m_info[1].signal = SIGCHLD /\ m_command_pid # <<>>
  /\ env_count < MaxFaults
  /\ env_count' = env_count + 1
  /\ UNCHANGED <<parentVars, monitorVars, cmdVars, kernVars, faultVars>>
  /\ UNCHANGED <<p_recv, m_recv, p_info, m_info, io_error, stops>>

Interruptions ==
  \/ P_RecvInterrupted \/ P_SendInterrupted \/ P_WaitpidInterrupted
  \/ M_RecvInterrupted \/ M_ErrpipeInterrupted \/ M_WaitpidInterrupted

FaultNext ==
  \/ ParentNext \/ MonitorNext \/ CommandNext \/ EnvNext
  \/ Interruptions \/ P_RecvFails \/ Env_KillMonitor

FaultSpec == Init /\ [][FaultNext]_vars

\* The message queue under load: other processes send the parent up to
\* MaxQueueSignals signals of two kinds that it relays, a send on the
\* backchannel can fail with an error that is not BrokenPipe, and the monitor
\* can be killed so that a send fails with BrokenPipe.
MaxQueueSignals == 2

QueueSignals == {SIGINT, SIGTERM}

Env_QueueSignal ==
  /\ pc_p \notin {"start", "done"}
  /\ env_count < MaxQueueSignals
  /\ \E sig \in QueueSignals : p_signals' = Raise(p_signals, sig)
  /\ env_count' = env_count + 1
  /\ UNCHANGED <<pc_p, foreground, term_raw, relay_registered, follower_open_p,
                 p_monitor_pid, p_command_pid, message_queue, p_batch, p_break,
                 p_exit, p_reason, p_result>>
  /\ UNCHANGED <<monitorVars, cmdVars, kernVars>>
  /\ UNCHANGED <<p_recv, m_recv, p_info, m_info, io_error, stops>>
  /\ UNCHANGED faultVars

QueueNext ==
  \/ ParentNext \/ MonitorNext \/ CommandNext
  \/ Env_QueueSignal \/ P_SendInterrupted \/ Env_KillMonitor

QueueSpec == Init /\ [][QueueNext]_vars

\* ------------------------------------------------------------- properties

\* A final message of the monitor about the command: its exit code or the
\* signal that killed it.
IsFinal(msg) == msg.tag \in {"CommandExit", "CommandSignal"}
FinalCount(seq) == Cardinality({i \in 1..Len(seq) : IsFinal(seq[i])})
\* The final message and the exit reason that stand for a wait status.
FinalFor(status) ==
  IF status.kind = "exit" THEN [tag |-> "CommandExit", val |-> status.val]
  ELSE [tag |-> "CommandSignal", val |-> status.val]
ReasonFor(status) ==
  IF status.kind = "exit" THEN [kind |-> "Code", val |-> status.val]
  ELSE [kind |-> "Signal", val |-> status.val]
\* Everything the monitor sent while the parent's end was open, in send order.
SentToParent == p_recv \o m2p

\* C1: in every run the parent receives CommandPid before any CommandExit or
\* CommandSignal: in what the monitor sent, and so in what the parent
\* received, every final message has a CommandPid before it.
C1_PidBeforeFinal ==
  /\ \A i \in 1..Len(SentToParent) :
       IsFinal(SentToParent[i]) =>
         \E j \in 1..(i - 1) : SentToParent[j].tag = "CommandPid"
  /\ \A i \in 1..Len(p_recv) :
       IsFinal(p_recv[i]) => \E j \in 1..(i - 1) : p_recv[j].tag = "CommandPid"

\* The parent has received a final message.
C1_Witness == \E i \in 1..Len(p_recv) : IsFinal(p_recv[i])

\* C2: the monitor receives ExecCommand exactly once and as its first
\* message: whatever it received starts with ExecCommand, every later message
\* is a Signal, and the parent runs its event loop only after it sent
\* ExecCommand.
C2_ExecCommandOnceFirst ==
  /\ m_recv # <<>> => m_recv[1] = [tag |-> "ExecCommand", val |-> 0]
  /\ \A i \in 2..Len(m_recv) : m_recv[i].tag = "Signal"
  /\ LET all == m_recv \o p2m IN
       /\ \A i \in 2..Len(all) : all[i].tag = "Signal"
       /\ pc_p \in {"new", "poll", "dispatch", "signal", "waitpid", "stopped"}
            => all # <<>> /\ all[1].tag = "ExecCommand"

\* The monitor has received the green light and then a signal to relay.
C2_Witness == Len(m_recv) >= 2

\* C3 as stated: once the monitor has reaped the command's termination and
\* the run is over, the parent has observed exactly one CommandExit or
\* CommandSignal.
C3_ExactlyOneFinal ==
  (pc_c = "reaped" /\ pc_p = "done" /\ pc_m = "exited") => FinalCount(p_recv) = 1

\* C3, amended: the monitor sends at most one CommandExit or CommandSignal in
\* a run, only after it has reaped the command's termination and with the
\* reaped status, so the parent observes at most one; a parent whose loop
\* stopped on the command's exit has observed exactly one.
C3_AtMostOneFinal ==
  /\ FinalCount(SentToParent) <= 1
  /\ \A i \in 1..Len(SentToParent) :
       IsFinal(SentToParent[i]) =>
         /\ pc_c = "reaped"
         /\ SentToParent[i] = FinalFor(cmd_status[1])
  /\ (p_reason # <<>> /\ p_reason[1].stop = "ExitCommand") => FinalCount(p_recv) = 1

\* The command was stopped and later terminated, and the parent has observed
\* the stop and then the one final message.
C3_Witness ==
  /\ FinalCount(p_recv) = 1
  /\ \E i \in 1..Len(p_recv) : p_recv[i].tag = "CommandStatus"

\* C4: when no I/O error happened in the run, exec_pty returns Ok with the
\* exit reason of the status the monitor reaped: Code(c) for an exit with code
\* c, Signal(s) for a death by signal s.
C4_ExitReasonIsStatus ==
  (pc_p = "done" /\ ~io_error) =>
    /\ pc_c = "reaped"
    /\ p_result = <<[ok |-> TRUE, reason |-> ReasonFor(cmd_status[1]),
                     err |-> UnexpectedEof]>>

\* exec_pty has returned the signal that killed the command, without any I/O
\* error in the run.
C4_Witness ==
  /\ pc_p = "done" /\ ~io_error
  /\ p_result # <<>> /\ p_result[1].ok /\ p_result[1].reason.kind = "Signal"

\* C5 as stated: when exec of the command failed in the child with errno e,
\* exec_pty returns Err with the OS error e, never Ok, however the monitor's
\* read of the error pipe and its SIGCHLD interleave.
C5_ExecFailureIsErr ==
  (exec_errno # <<>> /\ pc_p = "done") =>
    p_result = <<[ok |-> FALSE, reason |-> [kind |-> "Code", val |-> 0],
                  err |-> [kind |-> "Os", code |-> exec_errno[1]]]>>

ParentHandles == p_info # <<>> /\ p_info' = <<>>
\* The sender is the command or a member of the command's process group.
FromCommandGroup(pid) ==
  pid = CmdPid \/ (pid # 0 /\ cmd_pgid # 0 /\ getpgid(pid) = <<cmd_pgid>>)

\* C7 as stated: for a signal whose sender is the command's PID or a member of
\* the command's process group the parent never enqueues MonitorMessage::Signal,
\* whether or not CommandPid was received, whether or not the signal is
\* flagged as user-sent, whatever group the command has moved to.
C7_FilterEverySender ==
  [][(ParentHandles /\ FromCommandGroup(p_info[1].pid))
       => message_queue' = message_queue]_vars

\* C7, amended: the parent drops a signal only when it is flagged as user-sent
\* and its sender s is not 0 and s is the command PID the parent has recorded
\* from CommandPid, or getpgid(s) is that PID or sudo's PID. While the monitor
\* is not reaped it enqueues Signal for every other signal except SIGCHLD,
\* SIGCONT and SIGWINCH: also for a signal of the command that arrives before
\* CommandPid, that is not flagged as user-sent, or whose sender is in a group
\* the command moved to.
C7_FilterAsCoded ==
  [][ParentHandles =>
       LET info == p_info[1]
           pgid == getpgid(info.pid)
           filtered ==
             /\ info.user /\ info.pid # 0
             /\ \/ <<info.pid>> = p_command_pid
                \/ (pgid # <<>> /\ (pgid = p_command_pid \/ pgid = <<SudoPid>>))
       IN message_queue' =
            IF /\ p_monitor_pid # <<>>
               /\ info.signal \notin {SIGCHLD, SIGCONT, SIGWINCH}
               /\ ~filtered
              THEN Append(message_queue, [tag |-> "Signal", val |-> info.signal])
              ELSE message_queue]_vars

\* The parent is handling a user-sent SIGINT of a process in the command's
\* group, with the command's PID recorded and the monitor not reaped.
C7_Witness ==
  /\ p_info # <<>> /\ p_info[1].user /\ p_info[1].signal = SIGINT
  /\ p_info[1].pid = HelperPid /\ getpgid(HelperPid) = <<CmdPid>>
  /\ p_command_pid = <<CmdPid>> /\ p_monitor_pid # <<>>

\* C8: once the monitor's event loop has stopped and the monitor is about to
\* send, or has sent, its final message, the follower's foreground process
\* group is monitor_pgrp.
C8_ForegroundIsMonitor ==
  (m_reason # <<>> /\ pc_m \in {"final", "exited"}) => fg = MonitorPid

\* The monitor is about to send its final message after a foreground run in
\* which a job of the command had become the foreground group.
C8_Witness ==
  pc_m = "final" /\ foreground /\ helper_pgid = HelperPid /\ command_pgrp = HelperPid

\* C9 as stated: when exec_pty has returned after the fork of the monitor,
\* the user's terminal is not in raw mode.
C9_TerminalRestored ==
  (pc_p = "done" /\ pc_m # "unborn") => ~term_raw

\* The command has terminated: it exited or was killed.
Terminated == pc_c \in {"zombie", "reaped"}

\* The monitor left its loop and exited after its final send: the status of
\* the command went to the parent, unless the loop stopped on a break or the
\* parent had returned already.
MonitorReported ==
  /\ pc_m = "exited" /\ m_reason # <<>>
  /\ \/ FinalCount(SentToParent) = 1
     \/ m_reason[1].stop = "Break"
     \/ pc_p = "done"

\* C10: under fair scheduling, once the command has terminated the monitor's
\* event loop stops and the monitor sends the status of the command to the
\* parent and exits, and the parent's event loop stops and exec_pty returns.
C10_LoopsStop ==
  /\ Terminated ~> MonitorReported
  /\ Terminated ~> (pc_m = "exited" /\ pc_p = "done")

\* The command was killed by a signal and both processes have left their
\* loops, the parent with the command's exit reason.
C10_Witness ==
  /\ pc_c = "reaped" /\ cmd_status[1].kind = "signal"
  /\ pc_m = "exited" /\ pc_p = "done" /\ p_reason[1].stop = "ExitCommand"

\* ------------------------------------------------------------------ C11
\* The monitor has taken Signal(sig) from the backchannel while it had a
\* command to signal: read_backchannel then calls send_signal.
RelayedToCommand(sig) == \E i \in 1..Len(m_recv) : m_recv[i] = Msg("Signal", sig)

RelayPending(sig) ==
  \E i \in 1..Len(message_queue) : message_queue[i] = Msg("Signal", sig)

\* C11: a signal the parent relays (here SIGINT, sent by a process unrelated
\* to the command), once the parent has enqueued Signal(signum), eventually
\* reaches the command through the monitor, unless the monitor or the command
\* ends first.
C11_RelayedEventually ==
  RelayPending(SIGINT) ~>
    (RelayedToCommand(SIGINT) \/ MonitorGone \/ ~CommandAlive)

\* ------------------------------------------------------------------ C12
\* read_backchannel takes Signal(token) while the monitor has a command.
TokenTaken(token) ==
  /\ pc_m = "dispatch" /\ m_command_pid # <<>>
  /\ Len(m_recv') = Len(m_recv) + 1
  /\ m_recv'[Len(m_recv')] = Msg("Signal", token)

\* handle_sigchld sees a stop of the command.
StopSeen == pc_m = "signal" /\ MonitorSignalCase(m_info[1]) = "stop"

\* C12: on SIGCONT_FG the monitor first sets the foreground group of the
\* follower to command_pgrp, on SIGCONT_BG to monitor_pgrp, without a signal
\* to the command in that step, and only its next step sends SIGCONT, leaving
\* the foreground group as set; SIGCONT is sent to the command in no other
\* way. A stop seen while the foreground group g is not the monitor's records
\* g as command_pgrp, the group a later SIGCONT_FG makes the foreground group.
C12_ForegroundThenCont ==
  [][ /\ TokenTaken(SIGCONT_FG) =>
           fg' = command_pgrp /\ cmd_sigs' = cmd_sigs /\ pc_m' = "sendcont"
      /\ TokenTaken(SIGCONT_BG) =>
           fg' = monitor_pgrp /\ cmd_sigs' = cmd_sigs /\ pc_m' = "sendcont"
      /\ (pc_m = "sendcont" /\ pc_m' # "sendcont") =>
           /\ cmd_sigs' = Kill(cmd_sigs, {SIGCONT})
           /\ fg' = fg /\ command_pgrp' = command_pgrp
      /\ (SIGCONT \in cmd_sigs' /\ SIGCONT \notin cmd_sigs) => pc_m = "sendcont"
      /\ (StopSeen /\ pc_m' # "signal" /\ fg # monitor_pgrp) =>
           command_pgrp' = fg
    ]_vars

\* A job of the command was in the foreground when the command stopped, a
\* SIGCONT_BG took the terminal away, and a SIGCONT_FG has made the job's group
\* the foreground group again; the command is still stopped and the SIGCONT of
\* this token is not sent yet.
C12_Witness ==
  /\ pc_m = "sendcont" /\ pc_c = "stopped"
  /\ m_recv[Len(m_recv)] = Msg("Signal", SIGCONT_FG)
  /\ \E i \in 1..Len(m_recv) : m_recv[i] = Msg("Signal", SIGCONT_BG)
  /\ command_pgrp = HelperPid /\ fg = HelperPid

\* ------------------------------------------------------------------ C13
\* C13 as stated: exec_pty returns an error when its loop was stopped by
\* Break and Ok when it was stopped by Exit, whatever the exit.
C13_ExitIsOk ==
  (pc_p = "done" /\ p_reason # <<>>) =>
    /\ p_reason[1].stop = "Break" => ~p_result[1].ok
    /\ p_reason[1].stop \in {"ExitBackchannel", "ExitCommand"} => p_result[1].ok

\* C13 amended: a loop stopped by Break(err) or by Exit(Backchannel(err))
\* returns Err(err); a loop stopped by Exit(Command(reason)) returns Ok(reason).
C13_ResultFollowsStopReason ==
  (pc_p = "done" /\ p_reason # <<>>) =>
    /\ p_reason[1].stop \in {"Break", "ExitBackchannel"} =>
         p_result[1] = Err(p_reason[1].err)
    /\ p_reason[1].stop = "ExitCommand" => p_result[1] = Ok(p_reason[1].reason)
    /\ p_reason[1].stop \in {"Break", "ExitBackchannel", "ExitCommand"}

\* The parent's loop was stopped by the exit set on EOF of the backchannel,
\* and exec_pty returned that error.
C13_Witness ==
  /\ pc_p = "done" /\ p_reason # <<>>
  /\ p_reason[1].stop = "ExitBackchannel"
  /\ p_result[1] = Err(UnexpectedEof)

\* ------------------------------------------------------------------ C14
\* on_message_received runs and its recv makes no injected error.
ParentReads ==
  /\ pc_p = "dispatch" /\ "read" \in p_batch /\ "read" \notin p_batch'
  /\ env_count' = env_count

\* C14: when the parent's recv on the backchannel reports EOF, the parent
\* calls set_exit with that error and leaves the break alone; on another
\* error that is not an interruption it calls set_break with the error unless
\* a break is set already, and leaves the exit alone.
C14_EofExitsOthersBreak ==
  [][ /\ (ParentReads /\ m2p = <<>>) =>
           /\ p_exit' = <<ExitBackchannel(UnexpectedEof)>>
           /\ p_break' = p_break
      /\ P_RecvFails =>
           /\ p_exit' = p_exit
           /\ IF p_break = <<>>
                THEN \E e \in RecvErrnos : p_break' = <<OsError(e)>>
                ELSE p_break' = p_break
    ]_vars

\* The parent has read EOF from the backchannel of a killed monitor: the exit
\* is set and no break.
C14_Witness ==
  /\ pc_p = "dispatch" /\ MonitorGone /\ m2p = <<>>
  /\ p_exit = <<ExitBackchannel(UnexpectedEof)>> /\ p_break = <<>>

\* The parent's recv failed with another error: the break is set and no exit.
C14_BreakReached ==
  p_break = <<OsError(104)>> /\ p_exit = <<>> /\ pc_p = "dispatch"

\* ------------------------------------------------------------------ C15
\* The parent's end of the backchannel is written in this step.
ParentWrites == Len(p2m') > Len(p2m)

\* check_message_queue, called by the dispatcher for a writable backchannel,
\* sends the head of message_queue and removes it.
WrittenFromQueue ==
  /\ pc_p = "dispatch" /\ "write" \in p_batch /\ "write" \notin p_batch'
  /\ message_queue # <<>>
  /\ p2m' = Append(p2m, Head(message_queue))
  /\ message_queue' = Tail(message_queue)

\* C15 as stated: every message the parent writes to the backchannel is the
\* head of message_queue, written by the backchannel-writable callback, one
\* message per call.
C15_OnlyFromQueue == [][ParentWrites => WrittenFromQueue]_vars

\* C15 amended: the parent writes ExecCommand directly, once, in exec_pty
\* before its closure and its loop exist; every later message is a Signal
\* that was put on message_queue and is written by the backchannel-writable
\* callback, one message per call.
C15_QueueAfterGreenLight ==
  [][ParentWrites =>
        \/ /\ pc_p = "greenlight" /\ p2m = <<>> /\ m_recv = <<>>
           /\ p2m' = <<ExecCommand>>
           /\ message_queue' = message_queue
        \/ /\ WrittenFromQueue
           /\ Head(message_queue).tag = "Signal"]_vars

\* The monitor holds the green light the parent wrote directly, and a Signal
\* the callback wrote from the queue is in flight.
C15_Witness ==
  /\ m_recv # <<>> /\ m_recv[1] = ExecCommand
  /\ p2m # <<>> /\ p2m[1].tag = "Signal"
  /\ message_queue = <<>>

\* ------------------------------------------------------------------ C16
\* An interrupted system call sets no exit and no break and loses or dequeues
\* no message.
C16_Frame ==
  [][Interruptions =>
       /\ UNCHANGED <<p_break, p_exit, m_break, m_exit>>
       /\ UNCHANGED <<p2m, m2p, errpipe, message_queue>>
       /\ UNCHANGED <<p_monitor_pid, p_command_pid, m_command_pid, command_pgrp>>
       /\ UNCHANGED <<pc_p, pc_m, pc_c, fg>>]_vars

MonitorHandles == m_info # <<>> /\ m_info' = <<>>

\* The signal is user-sent by the command or by a member of the group that is
\* command_pgrp now.
SentByCommandGroup(info) ==
  /\ info.user /\ info.pid # 0
  /\ info.pid = CmdPid \/ getpgid(info.pid) = <<command_pgrp>>

\* C18: the monitor sends the command nothing for a signal other than SIGCHLD
\* that is user-sent by the command or by a member of the current
\* command_pgrp; every other signal except SIGCHLD that it receives while the
\* command is alive goes to send_signal, which sends the command that signal
\* (terminate_process for SIGALRM).
C18_MonitorFilter ==
  [][(MonitorHandles /\ m_info[1].signal # SIGCHLD) =>
       IF SentByCommandGroup(m_info[1])
         THEN cmd_sigs' = cmd_sigs /\ fg' = fg
         ELSE CommandAlive =>
                /\ cmd_sigs' = cmd_sigs \cup
                     (IF m_info[1].signal = SIGALRM THEN TerminateSignals
                      ELSE {m_info[1].signal})
                /\ fg' = fg]_vars

\* The monitor is about to handle a SIGINT that a job of the command, a
\* member of command_pgrp, sent with kill.
C18_Witness ==
  /\ pc_m = "signal" /\ m_info # <<>> /\ CommandAlive
  /\ m_info[1].signal = SIGINT /\ m_info[1].user
  /\ m_info[1].pid = HelperPid /\ getpgid(HelperPid) = <<command_pgrp>>

\* ------------------------------------------------------------------ C19
\* MonitorClosure exists: from its creation to the exit of the monitor.
MonitorClosureExists ==
  pc_m \in {"setfg", "poll", "dispatch", "signal", "sendcont", "teardown", "final"}

\* C19: while the monitor's closure exists, command_pid is Some exactly when
\* the command has not been reaped as exited or killed; a reaped command stays
\* reaped and command_pid stays None; and the monitor makes no kill,
\* terminate_process or waitpid on the PID of a command it has reaped, for an
\* OS signal or for a Signal message.
C19_CommandPidUntilReaped ==
  /\ [](MonitorClosureExists => (m_command_pid = <<CmdPid>> <=> pc_c # "reaped"))
  /\ [](~stale_call)
  /\ [][pc_c = "reaped" => (pc_c' = "reaped" /\ m_command_pid' = <<>>)]_vars

\* The monitor, having reaped the command, is about to handle another signal
\* with command_pid None.
C19_Witness ==
  /\ pc_c = "reaped" /\ m_command_pid = <<>>
  /\ pc_m = "signal" /\ m_info # <<>> /\ m_info[1].signal # SIGCHLD

\* ------------------------------------------------------------------ C20
\* C20: the parent's command_pid changes only from None to Some(pid), when
\* on_message_received takes CommandPid(pid) from the backchannel, and never
\* again; monitor_pid is set to Some when the closure is created and changes
\* afterwards only to None, when waitpid reports that the monitor exited or
\* was killed: a stop or a continue of the monitor leaves it alone.
C20_ParentPids ==
  [][ /\ p_command_pid' # p_command_pid =>
           /\ p_command_pid = <<>> /\ p_command_pid' = <<CmdPid>>
           /\ ParentReads /\ m2p # <<>> /\ Head(m2p) = Msg("CommandPid", CmdPid)
      /\ p_monitor_pid' # p_monitor_pid =>
           \/ pc_p = "new" /\ p_monitor_pid' = <<MonitorPid>>
           \/ /\ pc_p = "waitpid" /\ MonitorGone
              /\ p_monitor_pid = <<MonitorPid>> /\ p_monitor_pid' = <<>>
      /\ pc_p' = "poll" /\ pc_p = "new" => p_command_pid' = <<>>
    ]_vars

\* The parent has taken the stop of the monitor from waitpid and still holds
\* monitor_pid, and it holds the command's PID from CommandPid.
C20_Witness ==
  /\ mon_job = "stopped" /\ pc_p = "dispatch"
  /\ p_monitor_pid = <<MonitorPid>> /\ p_command_pid = <<CmdPid>>

\* The parent has reaped the monitor: its closure exists and monitor_pid is
\* None.
MonitorReaped ==
  /\ pc_p \in {"poll", "dispatch", "signal", "waitpid", "stopped"}
  /\ p_monitor_pid = <<>>

\* C21: the parent's handling of SIGCHLD never stops its event loop: the
\* handler returns to the dispatcher, sets monitor_pid to None or leaves it,
\* and changes neither exit nor break nor the backchannel; the loop of a
\* parent that reaped the monitor stops only with an exit or a break set by
\* another callback; and a final message the parent reads after it reaped the
\* monitor sets the exit to the reason of that message.
C21_SigchldKeepsLoop ==
  /\ [][ (pc_p = "waitpid" /\ pc_p' # "waitpid") =>
            /\ pc_p' = "dispatch"
            /\ p_exit' = p_exit /\ p_break' = p_break
            /\ m2p' = m2p /\ p_recv' = p_recv
            /\ p_monitor_pid' \in {p_monitor_pid, <<>>}
            /\ (MonitorGone => p_monitor_pid' = <<>>) ]_vars
  /\ [][ (MonitorReaped /\ pc_p = "dispatch" /\ pc_p' = "stopped") =>
            (p_exit # <<>> \/ p_break # <<>>) ]_vars
  /\ [][ (MonitorReaped /\ ParentReads /\ m2p # <<>> /\ IsFinal(Head(m2p))) =>
            p_exit' = <<ExitCommand(CommandExitReason(Head(m2p)))>> ]_vars
  /\ [](MonitorReaped /\ p_exit = <<>> /\ p_break = <<>> => pc_p # "stopped")

\* The parent has reaped the monitor while the monitor's final message is
\* still unread in the backchannel, and its loop goes on with neither exit nor
\* break set.
C21_Witness ==
  /\ MonitorReaped /\ pc_p \in {"poll", "dispatch"}
  /\ m2p # <<>> /\ IsFinal(Head(m2p))
  /\ p_exit = <<>> /\ p_break = <<>>

\* ------------------------------------------------------------------ C22
\* C22 as stated: the parent's SIGCHLD handler always returns to the event
\* loop without waiting: a parent that entered handle_sigchld leaves it, also
\* when waitpid on the monitor has no status to report.
C22_SigchldReturns ==
  (pc_p = "waitpid") ~> (pc_p # "waitpid")

\* ------------------------------------------------------------------ C23
\* A signal ended the child of the monitor before it called exec.
KilledBeforeExec ==
  /\ pc_c \in {"zombie", "reaped"} /\ exec_errno = <<>>
  /\ cmd_status # <<>> /\ cmd_status[1].kind = "signal"

\* C23: when foreground is requested, the command child leaves its wait for
\* exec only while the foreground group of the follower is its own PID, and
\* calls exec only after that; and under fair scheduling of the monitor and
\* the child the wait ends: the child gets to exec, unless a signal ends it
\* during the wait.
C23_ExecAfterForeground ==
  /\ [][ (foreground /\ pc_c = "waitfg" /\ pc_c' = "exec") => fg = CmdPid ]_vars
  /\ [][ (pc_c # "exec" /\ pc_c' = "exec") => pc_c = "waitfg" ]_vars
  /\ [][ (pc_c' \in {"failed", "running"} /\ pc_c' # pc_c) =>
            pc_c \in {"exec", "stopped"} ]_vars
  /\ (foreground /\ pc_c \in {"setpgid", "waitfg"}) ~>
       (pc_c = "exec" \/ KilledBeforeExec)

\* With foreground requested the child has left the wait and the command
\* runs, the follower's foreground group being the command's.
C23_Witness ==
  /\ foreground /\ pc_c = "running" /\ fg = CmdPid

\* ------------------------------------------------------------------ C24
\* C24: in every interleaving of the monitor and the child it forked, when
\* the monitor is about to call tcsetpgrp(follower, command_pgrp) at startup
\* command_pgrp is the command's PID and the child is in the process group of
\* that id; the monitor gets there only through MonitorClosure::new, whose
\* setpgid(command_pid, command_pid) leaves the child in that group whether
\* or not the child's own setpgid has run.
C24_GroupBeforeForeground ==
  /\ [](pc_m = "setfg" => (command_pgrp = CmdPid /\ cmd_pgid = CmdPid))
  /\ [][ (pc_m # "setfg" /\ pc_m' = "setfg") =>
            (pc_m = "new" /\ cmd_pgid' = CmdPid) ]_vars
  /\ [][ (pc_m = "setfg" /\ pc_m' = "poll") =>
            (cmd_pgid = CmdPid /\ fg' = (IF foreground THEN cmd_pgid ELSE fg)) ]_vars

\* The monitor is about to call tcsetpgrp while the child has not yet run its
\* own setpgid, and the child is in its own group already.
C24_Witness ==
  /\ pc_m = "setfg" /\ pc_c = "setpgid" /\ foreground /\ cmd_pgid = CmdPid

\* ------------------------------------------------------------------ C25
\* C25: command_pgrp of the monitor's closure never equals monitor_pgrp: the
\* closure starts with the command's PID, the only later change is in the
\* stop arm of handle_sigchld, to the foreground group of the follower when
\* that group is not the monitor's own, and so the foreground group that
\* read_backchannel sets on SIGCONT_FG is never the monitor's.
C25_CommandGroupNotMonitor ==
  /\ [](MonitorClosureExists => command_pgrp # monitor_pgrp)
  /\ [][ /\ (pc_m = "new" /\ pc_m' = "setfg") => command_pgrp' = CmdPid
         /\ (MonitorClosureExists /\ command_pgrp' # command_pgrp) =>
               (StopSeen /\ fg # monitor_pgrp /\ command_pgrp' = fg)
         /\ (StopSeen /\ pc_m' # "signal" /\ fg = monitor_pgrp) =>
               command_pgrp' = command_pgrp
         /\ TokenTaken(SIGCONT_FG) =>
               (fg' = command_pgrp /\ fg' # monitor_pgrp)
       ]_vars

\* The monitor has handled a stop of the command while its own group was the
\* foreground group of the follower (the command runs in the background, or
\* SIGCONT_BG came before the stop): it reported the stop
\* and kept the command's group in command_pgrp.
C25_Witness ==
  /\ pc_m = "dispatch" /\ pc_c = "stopped" /\ SIGCONT \notin cmd_sigs
  /\ stop_pending = <<>> /\ fg = monitor_pgrp
  /\ \E i \in 1..Len(SentToParent) : SentToParent[i].tag = "CommandStatus"
  /\ command_pgrp = CmdPid

\* ------------------------------------------------------------------ C26
\* The Signal messages the parent has sent or still holds for the monitor,
\* oldest first: those the monitor took from the backchannel, those in flight
\* and those that wait in message_queue.
IsSignalMessage(msg) == msg.tag = "Signal"
MessageStream == SelectSeq(m_recv \o p2m \o message_queue, IsSignalMessage)

\* The dispatcher calls check_message_queue with a message in the queue.
QueueChecked ==
  /\ pc_p = "dispatch" /\ "write" \in p_batch /\ "write" \notin p_batch'
  /\ message_queue # <<>>

\* C26: Signal messages reach the backchannel in the order the parent
\* scheduled them, each at most once: the stream of messages sent and waiting
\* changes only when on_signal schedules a signal, which goes to its end;
\* check_message_queue either sends the head of message_queue and removes
\* it, or, on an error of the send, leaves queue and backchannel as they are,
\* setting the break to BrokenPipe when the monitor's end is gone and
\* nothing otherwise; and nothing else removes a message from the queue.
C26_QueueInOrder ==
  [][ /\ MessageStream' # MessageStream =>
           /\ pc_p = "signal" /\ p_info # <<>>
           /\ MessageStream' = Append(MessageStream, Msg("Signal", p_info[1].signal))
           /\ message_queue' = Append(message_queue, Msg("Signal", p_info[1].signal))
      /\ QueueChecked =>
           \/ /\ p2m' = Append(p2m, Head(message_queue))
              /\ message_queue' = Tail(message_queue)
              /\ p_break' = p_break /\ ~MonitorGone
           \/ /\ p2m' = p2m /\ message_queue' = message_queue
              /\ p_break' = (IF "p_send" \in retry' THEN p_break
                             ELSE SetBreak(p_break, BrokenPipe))
              /\ ("p_send" \in retry' \/ MonitorGone)
      /\ Len(message_queue') < Len(message_queue) =>
           (QueueChecked /\ p2m' = Append(p2m, Head(message_queue)))
    ]_vars

\* The parent scheduled SIGTERM and then SIGINT, and both messages went to
\* the backchannel in that order, leaving the queue empty.
C26_Witness ==
  /\ message_queue = <<>>
  /\ \E i \in 1..Len(m_recv \o p2m) : \E j \in (i + 1)..Len(m_recv \o p2m) :
       /\ (m_recv \o p2m)[i] = Msg("Signal", SIGTERM)
       /\ (m_recv \o p2m)[j] = Msg("Signal", SIGINT)

\* A send failed with BrokenPipe: the break is set and the message is still
\* the head of the queue.
C26_BrokenPipeKeepsHead ==
  /\ p_break = <<BrokenPipe>> /\ message_queue # <<>> /\ pc_p = "dispatch"

\* ------------------------------------------------------------------ C27
\* The parent takes a stop notification from the backchannel.
StopNotified ==
  ParentReads /\ m2p # <<>> /\ Head(m2p).tag = "CommandStatus"

====
